---------------------------- MODULE Spec2Model ----------------------------
(***************************************************************************)
(* A model of the node-topology part of the service proxy and of its       *)
(* kernel sets:                                                            *)
(*   - NodeChangeTracker.Update and NodeMap.apply (package proxy), with    *)
(*     the tracker's mutex and the two metrics they touch;                 *)
(*   - FilterTopologyEndpoint (package proxy), a pure function;            *)
(*   - IPSet.syncIPSetEntries, ensureIPSets and checkMinVersion (package   *)
(*     ipvs) and runner.CreateSet (package ipset).                         *)
(* The tracker is checked under Spec, the filter under SpecFilter, the     *)
(* reconciler under SpecSync, ensureIPSets under SpecEnsure, CreateSet     *)
(* under SpecCreate and checkMinVersion under SpecVersion.                 *)
(***************************************************************************)
EXTENDS Integers, Sequences, FiniteSets, TLC

VARIABLES
    world,          \* the cluster: node name -> the v1.Node the event source holds
    nodeMap,        \* NodeMap: node name -> Node (BaseNodeInfo)
    items,          \* NodeChangeTracker.items: node name -> nodeChange
    lock,           \* NodeChangeTracker.lock: TRUE while held
    pc,             \* each Update caller's position
    call,           \* each Update caller's <previous, current> arguments
    ret,            \* the value each Update caller's last call returned
    applyPc,        \* the apply caller's position
    batch,          \* history: the items the running apply ranged over
    mapBefore,      \* history: the NodeMap when the running apply took the lock
    changesTotal,   \* metrics.NodeChangesTotal
    changesPending, \* metrics.NodeChangesPending
    fCall,          \* the arguments of the last FilterTopologyEndpoint call
    fResult,        \* what that call returned
    activeEntries,  \* IPSet.activeEntries: the entries the set should hold
    kernelSet,      \* the entries the kernel's set holds
    syncPc,         \* the position of syncIPSetEntries
    appliedEntries, \* what ListEntries returned to the running pass
    listErr,        \* whether ListEntries failed in the running pass
    todo,           \* the entries the running loop has still to visit
    storeCalls,     \* history: the DelEntry and AddEntry calls of the latest pass
    prevPass,       \* history: the pass before the latest one
    passes,         \* the number of passes started
    ipSets,         \* the descriptors handed to ensureIPSets or CreateSet
    ensureNext,     \* the index of the descriptor ensureIPSets visits next
    ensurePc,       \* "run" until the call has returned
    ensureErr,      \* the error the call returned
    createLog,      \* history: the CreateSet calls made
    vstring,        \* the argument of checkMinVersion
    vChecked,       \* whether checkMinVersion has returned
    vResult,        \* what it returned
    acquired        \* history: the Update calls in the order they took the lock

raceVars == <<acquired>>

createVars == <<ipSets, ensureNext, ensurePc, ensureErr, createLog>>

versionVars == <<vstring, vChecked, vResult>>

syncVars == <<activeEntries, kernelSet, syncPc, appliedEntries, listErr, todo,
              storeCalls, prevPass, passes>>

vars == <<world, nodeMap, items, lock, pc, call, ret, applyPc, batch, mapBefore,
          changesTotal, changesPending, fCall, fResult, syncVars, createVars,
          versionVars, raceVars>>

trackerVars == <<world, items, lock, pc, call, ret, applyPc, batch, mapBefore,
                 changesTotal, changesPending>>

filterVars == <<fCall, fResult>>

-----------------------------------------------------------------------------
(* Bounds of the model *)

\* Update calls (with a side present) in one behaviour: the cap of changesTotal.
MaxChanges == 3

\* The longest topologyKeys list handed to FilterTopologyEndpoint.
MaxKeys == 2

\* The longest endpoints list handed to FilterTopologyEndpoint.
MaxEndpoints == 2

\* The passes of syncIPSetEntries in one behaviour.
MaxPasses == 2

\* The most descriptors handed to ensureIPSets.
MaxSets == 3

\* The longest port range of a descriptor that sets one.
MaxRangeLen == 3

\* The longest version string handed to checkMinVersion.
MaxVersionLen == 4

\* The Update calls of unordered callers in one behaviour.
MaxRaceCalls == 3

\* The node names of the cluster.
NodeNames == {"n1", "n2"}

\* The goroutines that call Update.
Updaters == {"u1", "u2"}

\* Topology label keys and values.
TopologyKeys == {"host", "zone"}
TopologyValues == {"a", "b"}

\* Fields of a v1.Node other than its name and labels (they change on a heartbeat).
Statuses == {"Ready", "NotReady"}

-----------------------------------------------------------------------------
(* Maps *)

EmptyMap == [x \in {} |-> x]

MapPut(m, k, v) == [x \in (DOMAIN m) \cup {k} |-> IF x = k THEN v ELSE m[x]]

MapDel(m, k) == [x \in (DOMAIN m) \ {k} |-> m[x]]

\* Every map[string]string over the topology keys.
LabelMaps == UNION {[D -> TopologyValues] : D \in SUBSET TopologyKeys}

\* The label maps the event source gives the nodes of the tracker's cluster.
EventLabels == {l \in LabelMaps : DOMAIN l \subseteq {"zone"}}

\* All orders in which a (Go) range over a map with key set S may visit it.
RangeOrders(S) ==
    {o \in [1..Cardinality(S) -> S] : \A i, j \in DOMAIN o : i # j => o[i] # o[j]}

-----------------------------------------------------------------------------
(* Nodes *)

\* A nil *v1.Node, and a nil Node interface value.
Nil == [nil |-> TRUE]

\* A *v1.Node: only these fields matter.
V1Node(name, labels, status) == [Name |-> name, Labels |-> labels, Status |-> status]

newBaseNodeInfo(name, labels) == [name |-> name, labels |-> labels]

NodeName(info) == info.name

\* The (value, ok) pair of BaseNodeInfo.GetTopologyValue.
GetTopologyValue(info, key) ==
    IF key \in DOMAIN info.labels
    THEN [value |-> info.labels[key], ok |-> TRUE]
    ELSE [value |-> "", ok |-> FALSE]

\* As convertNode, but the snapshot also keeps the node's status.
convertNodeWithStatus(node) ==
    IF node = Nil
    THEN Nil
    ELSE [name |-> node.Name, labels |-> node.Labels, status |-> node.Status]

convertNode(node) ==
    IF node = Nil THEN Nil ELSE newBaseNodeInfo(node.Name, node.Labels)

\* As DeepEqual, but comparing the two pointers: equal only when both are nil.
DeepEqualPointers(a, b) == a = Nil /\ b = Nil

\* reflect.DeepEqual on two Node values: both nil, or equal name and equal labels.
DeepEqual(a, b) == a = b

-----------------------------------------------------------------------------
(* NodeChangeTracker.Update *)

\* The node whose name keys the change: current, or previous when current is nil.
KeyNode(previous, current) == IF current # Nil THEN current ELSE previous

\* As UpdateItems, but previous is set on every call, not only on the first.
UpdateItemsOverwritesPrevious(its, previous, current) ==
    LET name == KeyNode(previous, current).Name
        change == [previous |-> convertNode(previous), current |-> convertNode(current)]
    IN  IF DeepEqual(change.previous, change.current)
        THEN MapDel(its, name)
        ELSE MapPut(its, name, change)

\* The items after the locked part of Update(previous, current).
UpdateItems(its, previous, current) ==
    LET name == KeyNode(previous, current).Name
        change == IF name \in DOMAIN its
                  THEN [its[name] EXCEPT !.current = convertNode(current)]
                  ELSE [previous |-> convertNode(previous),
                        current |-> convertNode(current)]
    IN  IF DeepEqual(change.previous, change.current)
        THEN MapDel(its, name)
        ELSE MapPut(its, name, change)

\* As UpdateResult, but true whatever the items hold.
UpdateResultAlways(its) == TRUE

\* The value Update returns, from the items it leaves.
UpdateResult(its) == Cardinality(DOMAIN its) > 0

\* The names with an Update call in flight.
InFlight == {KeyNode(call[p][1], call[p][2]).Name : p \in {q \in Updaters : pc[q] # "idle"}}

\* The event source: the well-formed <previous, current> pairs for the cluster as
\* it is, with the cluster after each. Events of one node are delivered in order:
\* none is produced while an Update for that node is still running.
NodeEvents ==
    {[previous |-> Nil, current |-> V1Node(n, l, s),
      after |-> MapPut(world, n, V1Node(n, l, s))] :
        n \in NodeNames \ (DOMAIN world \cup InFlight), l \in EventLabels, s \in Statuses}
    \cup
    {[previous |-> world[n], current |-> V1Node(n, l, s),
      after |-> MapPut(world, n, V1Node(n, l, s))] :
        n \in (DOMAIN world) \ InFlight, l \in EventLabels, s \in Statuses}
    \cup
    {[previous |-> world[n], current |-> Nil, after |-> MapDel(world, n)] :
        n \in (DOMAIN world) \ InFlight}

\* Update is called with a node on at least one side: count it, then wait for the lock.
UpdateCall(p) ==
    /\ pc[p] = "idle"
    /\ changesTotal < MaxChanges
    /\ \E e \in NodeEvents :
         /\ world' = e.after
         /\ call' = [call EXCEPT ![p] = <<e.previous, e.current>>]
    /\ changesTotal' = changesTotal + 1
    /\ pc' = [pc EXCEPT ![p] = "lock"]
    /\ UNCHANGED <<nodeMap, items, lock, ret, applyPc, batch, mapBefore,
                   changesPending, filterVars, syncVars, createVars, versionVars, raceVars>>

\* As UpdateNil, but the call is counted before the check for two nil sides.
UpdateNilCounted(p) ==
    /\ pc[p] = "idle"
    /\ changesTotal < MaxChanges
    /\ ret' = [ret EXCEPT ![p] = FALSE]
    /\ changesTotal' = changesTotal + 1
    /\ UNCHANGED <<world, nodeMap, items, lock, pc, call, applyPc, batch, mapBefore,
                   changesPending, filterVars, syncVars, createVars, versionVars, raceVars>>

\* Update(nil, nil) returns false directly.
UpdateNil(p) ==
    /\ pc[p] = "idle"
    /\ ret' = [ret EXCEPT ![p] = FALSE]
    /\ UNCHANGED <<world, nodeMap, items, lock, pc, call, applyPc, batch, mapBefore,
                   changesTotal, changesPending, filterVars, syncVars, createVars, versionVars, raceVars>>

\* As TryLock, but a mutex that excludes nobody.
TryLockNoExclusion == TRUE

\* sync.Mutex.Lock succeeds when the mutex is free.
TryLock == lock = FALSE

UpdateLock(p) ==
    /\ pc[p] = "lock"
    /\ TryLock
    /\ lock' = TRUE
    /\ pc' = [pc EXCEPT ![p] = "body"]
    /\ UNCHANGED <<world, nodeMap, items, call, ret, applyPc, batch, mapBefore,
                   changesTotal, changesPending, filterVars, syncVars, createVars, versionVars, raceVars>>

\* As UpdateBody, but the gauge is set before the record with equal sides is deleted.
UpdateBodyGaugeFirst(p) ==
    /\ pc[p] = "body"
    /\ items' = UpdateItems(items, call[p][1], call[p][2])
    /\ changesPending' = Cardinality(DOMAIN items \cup {KeyNode(call[p][1], call[p][2]).Name})
    /\ ret' = [ret EXCEPT ![p] = UpdateResult(items')]
    /\ pc' = [pc EXCEPT ![p] = "unlock"]
    /\ UNCHANGED <<world, nodeMap, lock, call, applyPc, batch, mapBefore,
                   changesTotal, filterVars, syncVars, createVars, versionVars, raceVars>>

UpdateBody(p) ==
    /\ pc[p] = "body"
    /\ items' = UpdateItems(items, call[p][1], call[p][2])
    /\ changesPending' = Cardinality(DOMAIN items')
    /\ ret' = [ret EXCEPT ![p] = UpdateResult(items')]
    /\ pc' = [pc EXCEPT ![p] = "unlock"]
    /\ UNCHANGED <<world, nodeMap, lock, call, applyPc, batch, mapBefore,
                   changesTotal, filterVars, syncVars, createVars, versionVars, raceVars>>

\* The deferred Unlock; the call returns.
UpdateUnlock(p) ==
    /\ pc[p] = "unlock"
    /\ lock' = FALSE
    /\ pc' = [pc EXCEPT ![p] = "idle"]
    /\ call' = [call EXCEPT ![p] = <<Nil, Nil>>]
    /\ UNCHANGED <<world, nodeMap, items, ret, applyPc, batch, mapBefore,
                   changesTotal, changesPending, filterVars, syncVars, createVars, versionVars, raceVars>>

-----------------------------------------------------------------------------
(* NodeChangeTracker.Update, called by callers that nothing orders *)

\* The nodes the unordered callers pass: n1 without labels and with one, n2.
RaceNodes ==
    {V1Node("n1", l, "Ready") : l \in {EmptyMap, [zone |-> "a"]}}
    \cup {V1Node("n2", EmptyMap, "Ready")}

\* Their <previous, current> pairs: a side may be nil, not both, and two nodes
\* have one name.
RacePairs ==
    {<<previous, current>> : previous \in RaceNodes \cup {Nil}, current \in RaceNodes \cup {Nil}}
    \ {pair \in (RaceNodes \cup {Nil}) \X (RaceNodes \cup {Nil}) :
          \/ pair[1] = Nil /\ pair[2] = Nil
          \/ pair[1] # Nil /\ pair[2] # Nil /\ pair[1].Name # pair[2].Name}

\* Update is called with any such pair, whatever the other callers are doing.
RaceCall(p) ==
    /\ pc[p] = "idle"
    /\ changesTotal < MaxRaceCalls
    /\ \E pair \in RacePairs : call' = [call EXCEPT ![p] = pair]
    /\ changesTotal' = changesTotal + 1
    /\ pc' = [pc EXCEPT ![p] = "lock"]
    /\ UNCHANGED <<world, nodeMap, items, lock, ret, applyPc, batch, mapBefore,
                   changesPending, filterVars, syncVars, createVars, versionVars, raceVars>>

\* As RaceLock, but the caller does not wait for the mutex to be free.
RaceLockBarging(p) ==
    /\ pc[p] = "lock"
    /\ lock' = TRUE
    /\ pc' = [pc EXCEPT ![p] = "body"]
    /\ acquired' = Append(acquired, call[p])
    /\ UNCHANGED <<world, nodeMap, items, call, ret, applyPc, batch, mapBefore,
                   changesTotal, changesPending, filterVars, syncVars, createVars, versionVars>>

\* ect.lock.Lock(): the caller takes the mutex when it is free.
RaceLock(p) ==
    /\ pc[p] = "lock"
    /\ TryLock
    /\ lock' = TRUE
    /\ pc' = [pc EXCEPT ![p] = "body"]
    /\ acquired' = Append(acquired, call[p])
    /\ UNCHANGED <<world, nodeMap, items, call, ret, applyPc, batch, mapBefore,
                   changesTotal, changesPending, filterVars, syncVars, createVars, versionVars>>

-----------------------------------------------------------------------------
(* NodeMap.apply *)

add(em, other) == IF other # Nil THEN MapPut(em, NodeName(other), other) ELSE em

\* As remove, but nothing is deleted.
removeNothing(em, other) == em

remove(em, other) == IF other # Nil THEN MapDel(em, NodeName(other)) ELSE em

\* As ApplyChanges, but em.add(change.current) comes before em.remove(change.previous).
RECURSIVE ApplyChangesAddFirst(_, _, _)
ApplyChangesAddFirst(em, its, order) ==
    IF order = <<>>
    THEN em
    ELSE ApplyChangesAddFirst(
             remove(add(em, its[Head(order)].current), its[Head(order)].previous),
             its, Tail(order))

\* The loop of apply: for each change, in the order the range visits them,
\* em.remove(change.previous) then em.add(change.current).
RECURSIVE ApplyChanges(_, _, _)
ApplyChanges(em, its, order) ==
    IF order = <<>>
    THEN em
    ELSE ApplyChanges(add(remove(em, its[Head(order)].previous), its[Head(order)].current),
                      its, Tail(order))

ApplyLock ==
    /\ applyPc = "idle"
    /\ TryLock
    /\ lock' = TRUE
    /\ applyPc' = "range"
    /\ mapBefore' = nodeMap
    /\ UNCHANGED <<world, nodeMap, items, pc, call, ret, batch,
                   changesTotal, changesPending, filterVars, syncVars, createVars, versionVars, raceVars>>

ApplyRange ==
    /\ applyPc = "range"
    /\ \E order \in RangeOrders(DOMAIN items) :
         nodeMap' = ApplyChanges(nodeMap, items, order)
    /\ batch' = items
    /\ applyPc' = "reset"
    /\ UNCHANGED <<world, items, lock, pc, call, ret, mapBefore,
                   changesTotal, changesPending, filterVars, syncVars, createVars, versionVars, raceVars>>

\* As ApplyReset, but the tracker keeps its items.
ApplyResetKeepsItems ==
    /\ applyPc = "reset"
    /\ changesPending' = 0
    /\ applyPc' = "unlock"
    /\ UNCHANGED <<world, nodeMap, items, lock, pc, call, ret, batch, mapBefore,
                   changesTotal, filterVars, syncVars, createVars, versionVars, raceVars>>

ApplyReset ==
    /\ applyPc = "reset"
    /\ items' = EmptyMap
    /\ changesPending' = 0
    /\ applyPc' = "unlock"
    /\ UNCHANGED <<world, nodeMap, lock, pc, call, ret, batch, mapBefore,
                   changesTotal, filterVars, syncVars, createVars, versionVars, raceVars>>

\* The deferred Unlock; apply returns.
ApplyUnlock ==
    /\ applyPc = "unlock"
    /\ lock' = FALSE
    /\ applyPc' = "idle"
    /\ batch' = EmptyMap
    /\ mapBefore' = EmptyMap
    /\ UNCHANGED <<world, nodeMap, items, pc, call, ret,
                   changesTotal, changesPending, filterVars, syncVars, createVars, versionVars, raceVars>>

-----------------------------------------------------------------------------
(* FilterTopologyEndpoint *)

\* An Endpoint: its address and the name of the node that owns it ("" when unset).
BaseEndpointInfo(endpoint, nodeName) == [Endpoint |-> endpoint, NodeName |-> nodeName]

GetNodeName(ep) == ep.NodeName

\* A node name that no NodeMap of the model holds.
UnknownNode == "n3"

\* The candidate endpoints: one on each node, one with no node name, one on a
\* node the map does not know.
EndpointSet ==
    {BaseEndpointInfo("1.1.1.1:11", "n1"), BaseEndpointInfo("1.1.1.2:11", "n2"),
     BaseEndpointInfo("1.1.1.3:11", ""), BaseEndpointInfo("1.1.1.4:11", UnknownNode)}

\* The sequences over S of length at most n.
SeqsUpTo(S, n) == UNION {[1..k -> S] : k \in 0..n}

\* As ScanEndpoints, but a matching endpoint is put before those already taken.
RECURSIVE ScanEndpointsPrepending(_, _, _, _, _)
ScanEndpointsPrepending(filteredEndpoint, nm, key, topologyValue, endpoints) ==
    IF endpoints = <<>>
    THEN filteredEndpoint
    ELSE LET ep == Head(endpoints)
             nodeName == GetNodeName(ep)
         IN  IF nodeName = ""
             THEN ScanEndpointsPrepending(filteredEndpoint, nm, key, topologyValue,
                                          Tail(endpoints))
             ELSE IF nodeName \notin DOMAIN nm
             THEN ScanEndpointsPrepending(filteredEndpoint, nm, key, topologyValue,
                                          Tail(endpoints))
             ELSE LET v == GetTopologyValue(nm[nodeName], key)
                  IN  IF v.ok /\ v.value = topologyValue
                      THEN ScanEndpointsPrepending(<<ep>> \o filteredEndpoint, nm, key,
                                                   topologyValue, Tail(endpoints))
                      ELSE ScanEndpointsPrepending(filteredEndpoint, nm, key, topologyValue,
                                                   Tail(endpoints))

\* The inner loop: append to filteredEndpoint each endpoint whose node is named,
\* is in the map and has the current node's value for key.
RECURSIVE ScanEndpoints(_, _, _, _, _)
ScanEndpoints(filteredEndpoint, nm, key, topologyValue, endpoints) ==
    IF endpoints = <<>>
    THEN filteredEndpoint
    ELSE LET ep == Head(endpoints)
             nodeName == GetNodeName(ep)
         IN  IF nodeName = ""
             THEN ScanEndpoints(filteredEndpoint, nm, key, topologyValue, Tail(endpoints))
             ELSE IF nodeName \notin DOMAIN nm
             THEN ScanEndpoints(filteredEndpoint, nm, key, topologyValue, Tail(endpoints))
             ELSE LET v == GetTopologyValue(nm[nodeName], key)
                  IN  IF v.ok /\ v.value = topologyValue
                      THEN ScanEndpoints(Append(filteredEndpoint, ep), nm, key,
                                         topologyValue, Tail(endpoints))
                      ELSE ScanEndpoints(filteredEndpoint, nm, key, topologyValue,
                                         Tail(endpoints))

\* As ScanKeys, but the scan goes on after a key has matched.
RECURSIVE ScanKeysNoBreak(_, _, _, _, _)
ScanKeysNoBreak(filteredEndpoint, currentNode, nm, topologyKeys, endpoints) ==
    IF topologyKeys = <<>>
    THEN filteredEndpoint
    ELSE LET key == Head(topologyKeys)
             tv == GetTopologyValue(currentNode, key)
         IN  IF key = ""
             THEN endpoints
             ELSE IF ~tv.ok
             THEN ScanKeysNoBreak(filteredEndpoint, currentNode, nm, Tail(topologyKeys),
                                  endpoints)
             ELSE ScanKeysNoBreak(
                      ScanEndpoints(filteredEndpoint, nm, key, tv.value, endpoints),
                      currentNode, nm, Tail(topologyKeys), endpoints)

\* As ScanKeys, but the empty key is a key like any other (no node has a value for it).
RECURSIVE ScanKeysNoWildcard(_, _, _, _, _)
ScanKeysNoWildcard(filteredEndpoint, currentNode, nm, topologyKeys, endpoints) ==
    IF topologyKeys = <<>>
    THEN filteredEndpoint
    ELSE LET key == Head(topologyKeys)
             tv == GetTopologyValue(currentNode, key)
         IN  IF ~tv.ok
             THEN ScanKeysNoWildcard(filteredEndpoint, currentNode, nm,
                                     Tail(topologyKeys), endpoints)
             ELSE LET filtered == ScanEndpoints(filteredEndpoint, nm, key, tv.value,
                                                endpoints)
                  IN  IF Len(filtered) > 0
                      THEN filtered
                      ELSE ScanKeysNoWildcard(filtered, currentNode, nm,
                                              Tail(topologyKeys), endpoints)

\* The outer loop over the remaining topologyKeys, and the final return.
RECURSIVE ScanKeys(_, _, _, _, _)
ScanKeys(filteredEndpoint, currentNode, nm, topologyKeys, endpoints) ==
    IF topologyKeys = <<>>
    THEN filteredEndpoint
    ELSE LET key == Head(topologyKeys)
             tv == GetTopologyValue(currentNode, key)
         IN  IF key = ""
             THEN endpoints
             ELSE IF ~tv.ok
             THEN ScanKeys(filteredEndpoint, currentNode, nm, Tail(topologyKeys), endpoints)
             ELSE LET filtered == ScanEndpoints(filteredEndpoint, nm, key, tv.value,
                                                endpoints)
                  IN  IF Len(filtered) > 0
                      THEN filtered
                      ELSE ScanKeys(filtered, currentNode, nm, Tail(topologyKeys),
                                    endpoints)

\* As FilterTopologyEndpoint, but an empty selection falls back to every endpoint.
FilterTopologyEndpointFallback(currentNodeName, nm, topologyKeys, endpoints) ==
    IF Len(topologyKeys) = 0
    THEN endpoints
    ELSE IF currentNodeName \notin DOMAIN nm
    THEN endpoints
    ELSE LET filtered == ScanKeys(<<>>, nm[currentNodeName], nm, topologyKeys, endpoints)
         IN  IF Len(filtered) = 0 THEN endpoints ELSE filtered

\* As FilterTopologyEndpoint, but without the early return on an empty key list.
FilterTopologyEndpointScansNoKeys(currentNodeName, nm, topologyKeys, endpoints) ==
    IF currentNodeName \notin DOMAIN nm
    THEN endpoints
    ELSE ScanKeys(<<>>, nm[currentNodeName], nm, topologyKeys, endpoints)

\* As FilterTopologyEndpoint, but a current node missing from the map is taken
\* for a node without labels.
FilterTopologyEndpointUnknownAsBare(currentNodeName, nm, topologyKeys, endpoints) ==
    IF Len(topologyKeys) = 0
    THEN endpoints
    ELSE ScanKeys(<<>>,
                  IF currentNodeName \in DOMAIN nm
                  THEN nm[currentNodeName]
                  ELSE newBaseNodeInfo(currentNodeName, EmptyMap),
                  nm, topologyKeys, endpoints)

FilterTopologyEndpoint(currentNodeName, nm, topologyKeys, endpoints) ==
    IF Len(topologyKeys) = 0
    THEN endpoints
    ELSE IF currentNodeName \notin DOMAIN nm
    THEN endpoints
    ELSE ScanKeys(<<>>, nm[currentNodeName], nm, topologyKeys, endpoints)

\* No call made yet (a call always names a current node).
NoFilterCall == [currentNodeName |-> "", topologyKeys |-> <<>>, endpoints |-> <<>>]

\* One call of FilterTopologyEndpoint on the NodeMap, with its result.
FilterCall ==
    /\ fCall = NoFilterCall
    /\ \E cur \in NodeNames \cup {UnknownNode},
          keys \in SeqsUpTo(TopologyKeys \cup {""}, MaxKeys),
          eps \in SeqsUpTo(EndpointSet, MaxEndpoints) :
         /\ fCall' = [currentNodeName |-> cur, topologyKeys |-> keys, endpoints |-> eps]
         /\ fResult' = FilterTopologyEndpoint(cur, nodeMap, keys, eps)
    /\ UNCHANGED <<nodeMap, trackerVars, syncVars, createVars, versionVars, raceVars>>

\* Every NodeMap over the node names: each node under its own name.
NodeMaps ==
    UNION {{[n \in D |-> newBaseNodeInfo(n, f[n])] : f \in [D -> LabelMaps]} :
           D \in SUBSET NodeNames}

-----------------------------------------------------------------------------
(* IPSet.syncIPSetEntries *)

\* The entries of the model, in the order sets.String.List() sorts them.
EntryOrder == <<"10.0.0.1,tcp:80", "10.0.0.2,tcp:80", "10.0.0.3,tcp:80">>

Entries == {EntryOrder[i] : i \in DOMAIN EntryOrder}

\* sets.String.List(): the members, sorted.
List(S) == LET Member(e) == e \in S IN SelectSeq(EntryOrder, Member)

\* sets.String.Difference: the members of a that are not in b.
Difference(a, b) == a \ b

\* As Equal, but only the sizes of the two sets are compared.
EqualSizes(a, b) == Cardinality(a) = Cardinality(b)

\* sets.String.Equal.
Equal(a, b) == a = b

\* No pass has run.
NoPass == [listed |-> FALSE, active |-> {}, applied |-> {}, calls |-> <<>>]

\* As LegacyEntries, but every entry of the kernel's set is taken for legacy.
LegacyEntriesAll(active, current) == List(current)

\* The entries the first loop deletes.
LegacyEntries(active, current) == List(Difference(current, active))

\* As NewEntries, but without the entries whose call failed in the pass before.
NewEntriesSkipFailed(active, current) ==
    List(Difference(active, current)
         \ {prevPass.calls[i].entry :
                i \in {j \in DOMAIN prevPass.calls : ~prevPass.calls[j].ok}})

\* The entries the second loop adds.
NewEntries(active, current) == List(Difference(active, current))

\* Where the pass goes once the first loop has nothing left: the second loop,
\* or the return when that has nothing to add.
AfterDelLoop(active, current) ==
    IF NewEntries(active, current) = <<>>
    THEN [pc |-> "return", todo |-> <<>>]
    ELSE [pc |-> "add", todo |-> NewEntries(active, current)]

\* Where the pass goes after a successful listing.
AfterList(active, current) ==
    IF Equal(active, current)
    THEN [pc |-> "return", todo |-> <<>>]
    ELSE IF LegacyEntries(active, current) = <<>>
    THEN AfterDelLoop(active, current)
    ELSE [pc |-> "del", todo |-> LegacyEntries(active, current)]

\* The proxier rebuilds the entries the set should hold: resetEntries, then inserts.
Refresh ==
    /\ syncPc = "idle"
    /\ passes < MaxPasses
    /\ \E S \in SUBSET Entries : activeEntries' = S
    /\ UNCHANGED <<kernelSet, syncPc, appliedEntries, listErr, todo, storeCalls,
                   prevPass, passes>>
    /\ UNCHANGED <<nodeMap, trackerVars, filterVars, createVars, versionVars, raceVars>>

\* The pass starts and ListEntries succeeds.
SyncList ==
    /\ syncPc = "idle"
    /\ passes < MaxPasses
    /\ passes' = passes + 1
    /\ appliedEntries' = kernelSet
    /\ listErr' = FALSE
    /\ storeCalls' = <<>>
    /\ syncPc' = AfterList(activeEntries, appliedEntries').pc
    /\ todo' = AfterList(activeEntries, appliedEntries').todo
    /\ UNCHANGED <<activeEntries, kernelSet, prevPass>>
    /\ UNCHANGED <<nodeMap, trackerVars, filterVars, createVars, versionVars, raceVars>>

\* As SyncListFails, but the failed listing is taken for the listing of an
\* empty set and the pass goes on.
SyncListFailsAsEmpty ==
    /\ syncPc = "idle"
    /\ passes < MaxPasses
    /\ passes' = passes + 1
    /\ appliedEntries' = {}
    /\ listErr' = TRUE
    /\ storeCalls' = <<>>
    /\ syncPc' = AfterList(activeEntries, {}).pc
    /\ todo' = AfterList(activeEntries, {}).todo
    /\ UNCHANGED <<activeEntries, kernelSet, prevPass>>
    /\ UNCHANGED <<nodeMap, trackerVars, filterVars, createVars, versionVars, raceVars>>

\* The pass starts and ListEntries fails: the pass returns.
SyncListFails ==
    /\ syncPc = "idle"
    /\ passes < MaxPasses
    /\ passes' = passes + 1
    /\ appliedEntries' = {}
    /\ listErr' = TRUE
    /\ storeCalls' = <<>>
    /\ syncPc' = "return"
    /\ todo' = <<>>
    /\ UNCHANGED <<activeEntries, kernelSet, prevPass>>
    /\ UNCHANGED <<nodeMap, trackerVars, filterVars, createVars, versionVars, raceVars>>

\* As SyncDel, but a failed DelEntry ends the pass.
SyncDelAbortsOnError ==
    /\ syncPc = "del"
    /\ \E ok \in BOOLEAN :
         /\ kernelSet' = IF ok THEN kernelSet \ {Head(todo)} ELSE kernelSet
         /\ storeCalls' = Append(storeCalls, [op |-> "del", entry |-> Head(todo), ok |-> ok])
         /\ IF ~ok
            THEN syncPc' = "return" /\ todo' = <<>>
            ELSE IF Tail(todo) = <<>>
            THEN /\ syncPc' = AfterDelLoop(activeEntries, appliedEntries).pc
                 /\ todo' = AfterDelLoop(activeEntries, appliedEntries).todo
            ELSE syncPc' = "del" /\ todo' = Tail(todo)
    /\ UNCHANGED <<activeEntries, appliedEntries, listErr, prevPass, passes>>
    /\ UNCHANGED <<nodeMap, trackerVars, filterVars, createVars, versionVars, raceVars>>

\* One turn of the first loop: DelEntry on the next legacy entry; the store
\* deletes it or fails and leaves its set as it is.
SyncDel ==
    /\ syncPc = "del"
    /\ \E ok \in BOOLEAN :
         /\ kernelSet' = IF ok THEN kernelSet \ {Head(todo)} ELSE kernelSet
         /\ storeCalls' = Append(storeCalls, [op |-> "del", entry |-> Head(todo), ok |-> ok])
    /\ IF Tail(todo) = <<>>
       THEN /\ syncPc' = AfterDelLoop(activeEntries, appliedEntries).pc
            /\ todo' = AfterDelLoop(activeEntries, appliedEntries).todo
       ELSE syncPc' = "del" /\ todo' = Tail(todo)
    /\ UNCHANGED <<activeEntries, appliedEntries, listErr, prevPass, passes>>
    /\ UNCHANGED <<nodeMap, trackerVars, filterVars, createVars, versionVars, raceVars>>

\* As SyncAdd, but after the last AddEntry the deletes that failed in this pass
\* are tried once more, and fail again.
SyncAddRetriesDels ==
    /\ syncPc = "add"
    /\ \E ok \in BOOLEAN :
         LET failed == SelectSeq(storeCalls, LAMBDA c : c.op = "del" /\ ~c.ok)
             added == Append(storeCalls, [op |-> "add", entry |-> Head(todo), ok |-> ok])
         IN  /\ kernelSet' = IF ok THEN kernelSet \cup {Head(todo)} ELSE kernelSet
             /\ storeCalls' = IF Tail(todo) = <<>> THEN added \o failed ELSE added
    /\ IF Tail(todo) = <<>>
       THEN syncPc' = "return" /\ todo' = <<>>
       ELSE syncPc' = "add" /\ todo' = Tail(todo)
    /\ UNCHANGED <<activeEntries, appliedEntries, listErr, prevPass, passes>>
    /\ UNCHANGED <<nodeMap, trackerVars, filterVars, createVars, versionVars, raceVars>>

\* One turn of the second loop: AddEntry on the next new entry; the store adds
\* it or fails and leaves its set as it is.
SyncAdd ==
    /\ syncPc = "add"
    /\ \E ok \in BOOLEAN :
         /\ kernelSet' = IF ok THEN kernelSet \cup {Head(todo)} ELSE kernelSet
         /\ storeCalls' = Append(storeCalls, [op |-> "add", entry |-> Head(todo), ok |-> ok])
    /\ IF Tail(todo) = <<>>
       THEN syncPc' = "return" /\ todo' = <<>>
       ELSE syncPc' = "add" /\ todo' = Tail(todo)
    /\ UNCHANGED <<activeEntries, appliedEntries, listErr, prevPass, passes>>
    /\ UNCHANGED <<nodeMap, trackerVars, filterVars, createVars, versionVars, raceVars>>

\* The pass returns.
SyncReturn ==
    /\ syncPc = "return"
    /\ syncPc' = "idle"
    /\ prevPass' = [listed |-> ~listErr, active |-> activeEntries,
                    applied |-> appliedEntries, calls |-> storeCalls]
    /\ UNCHANGED <<activeEntries, kernelSet, appliedEntries, listErr, todo, storeCalls,
                   passes>>
    /\ UNCHANGED <<nodeMap, trackerVars, filterVars, createVars, versionVars, raceVars>>

\* The proxier's loop calls syncIPSetEntries once more, however often it has
\* before, and ListEntries succeeds.
CycleList ==
    /\ syncPc = "idle"
    /\ appliedEntries' = kernelSet
    /\ listErr' = FALSE
    /\ storeCalls' = <<>>
    /\ syncPc' = AfterList(activeEntries, appliedEntries').pc
    /\ todo' = AfterList(activeEntries, appliedEntries').todo
    /\ UNCHANGED <<activeEntries, kernelSet, prevPass, passes>>
    /\ UNCHANGED <<nodeMap, trackerVars, filterVars, createVars, versionVars, raceVars>>

\* The loop calls syncIPSetEntries once more and ListEntries fails.
CycleListFails ==
    /\ syncPc = "idle"
    /\ appliedEntries' = {}
    /\ listErr' = TRUE
    /\ storeCalls' = <<>>
    /\ syncPc' = "return"
    /\ todo' = <<>>
    /\ UNCHANGED <<activeEntries, kernelSet, prevPass, passes>>
    /\ UNCHANGED <<nodeMap, trackerVars, filterVars, createVars, versionVars, raceVars>>

\* DelEntry on this entry succeeds.
DelSucceeds(e) == SyncDel /\ Head(todo) = e /\ e \notin kernelSet'

\* AddEntry on this entry succeeds.
AddSucceeds(e) == SyncAdd /\ Head(todo) = e /\ e \in kernelSet'

\* No pass running, none run, nothing in the sets.
SyncIdle ==
    /\ activeEntries = {}
    /\ kernelSet = {}
    /\ syncPc = "idle"
    /\ appliedEntries = {}
    /\ listErr = FALSE
    /\ todo = <<>>
    /\ storeCalls = <<>>
    /\ prevPass = NoPass
    /\ passes = 0

-----------------------------------------------------------------------------
(* runner.CreateSet and ensureIPSets *)

HashIpPort == "hash:ip,port"

HashIp == "hash:ip"

BitmapPort == "bitmap:port"

\* A string read character by character is a sequence of one-character strings.
DefaultPortRange == <<"0", "-", "6", "5", "5", "3", "5">>

ProtocolFamilyIPV4 == "inet"

ProtocolFamilyIPV6 == "inet6"

ValidIPSetTypes == <<HashIpPort, HashIp, BitmapPort>>

IsValidIPSetType(set) == \E i \in DOMAIN ValidIPSetTypes : set = ValidIPSetTypes[i]

\* The hash size and the maximum of elements CreateSet fills in.
DefaultHashSize == 1024

DefaultMaxElem == 65536

Digits == {"0", "1", "2", "3", "4", "5", "6", "7", "8", "9"}

\* strings.Split(s, "-"): the pieces between the separators, empty ones included.
RECURSIVE SplitFrom(_, _)
SplitFrom(piece, s) ==
    IF s = <<>>
    THEN <<piece>>
    ELSE IF Head(s) = "-"
    THEN <<piece>> \o SplitFrom(<<>>, Tail(s))
    ELSE SplitFrom(Append(piece, Head(s)), Tail(s))

Split(s) == SplitFrom(<<>>, s)

\* strconv.Atoi returns no error: a sign or none, then digits and at least one.
\* No number of the model is too long for an int.
AtoiOk(s) ==
    LET body == IF s # <<>> /\ Head(s) \in {"+", "-"} THEN Tail(s) ELSE s
    IN  body # <<>> /\ \A i \in DOMAIN body : body[i] \in Digits

\* As validatePortRange, but the two pieces are not read as integers.
validatePortRangeAnyPieces(portRange) == Len(Split(portRange)) = 2

validatePortRange(portRange) ==
    LET strs == Split(portRange)
    IN  IF Len(strs) # 2
        THEN FALSE
        ELSE \A i \in DOMAIN strs : AtoiOk(strs[i])

\* The error values: nil and the four failures of CreateSet.
NoError == "nil"

ErrFamily == "protocol family is not supported"

ErrType == "ipset type is not supported"

ErrRange == "invalid port range"

ErrExec == "error creating ipset"

\* Nothing was run.
NoCommand == [cmd |-> "none"]

\* The arguments createSet hands to the ipset command.
CreateArgs(set, ignoreExistErr) ==
    [cmd |-> "create", name |-> set.Name, setType |-> set.SetType, exist |-> ignoreExistErr]
    @@ (IF set.SetType = HashIp \/ set.SetType = HashIpPort
        THEN [family |-> set.HashFamily, hashsize |-> set.HashSize, maxelem |-> set.MaxElem]
        ELSE <<>>)
    @@ (IF set.SetType = BitmapPort THEN [range |-> set.PortRange] ELSE <<>>)

\* runner.createSet: what becomes of the descriptor, the error returned and the
\* command run, execOk telling whether the command succeeds.
createSet(set, ignoreExistErr, execOk) ==
    LET ranged == IF set.SetType = BitmapPort /\ Len(set.PortRange) = 0
                  THEN [set EXCEPT !.PortRange = DefaultPortRange]
                  ELSE set
    IN  IF set.SetType = BitmapPort /\ ~validatePortRange(ranged.PortRange)
        THEN [set |-> ranged, err |-> ErrRange, command |-> NoCommand]
        ELSE [set |-> ranged,
              err |-> IF execOk THEN NoError ELSE ErrExec,
              command |-> CreateArgs(ranged, ignoreExistErr)]

\* runner.CreateSet.
CreateSet(set, ignoreExistErr, execOk) ==
    LET sized == IF set.HashSize = 0 THEN [set EXCEPT !.HashSize = DefaultHashSize] ELSE set
        maxed == IF sized.MaxElem = 0 THEN [sized EXCEPT !.MaxElem = DefaultMaxElem] ELSE sized
        famed == IF maxed.HashFamily = ""
                 THEN [maxed EXCEPT !.HashFamily = ProtocolFamilyIPV4]
                 ELSE maxed
        typed == IF famed.SetType = "" THEN [famed EXCEPT !.SetType = HashIpPort] ELSE famed
    IN  IF famed.HashFamily # "" /\ famed.HashFamily # ProtocolFamilyIPV4
           /\ famed.HashFamily # ProtocolFamilyIPV6
        THEN [set |-> famed, err |-> ErrFamily, command |-> NoCommand]
        ELSE IF ~IsValidIPSetType(typed.SetType)
        THEN [set |-> typed, err |-> ErrType, command |-> NoCommand]
        ELSE createSet(typed, ignoreExistErr, execOk)

\* An ipset.IPSet.
IPSetOf(name, setType, family, hashSize, maxElem, portRange) ==
    [Name |-> name, SetType |-> setType, HashFamily |-> family, HashSize |-> hashSize,
     MaxElem |-> maxElem, PortRange |-> portRange]

\* The characters of the port ranges of the model.
RangeChars == {"1", "-", "x", "+"}

\* The descriptors handed to CreateSet alone.
Descriptors ==
    {IPSetOf("KUBE-SET", t, f, h, m, r) :
        t \in {"", HashIpPort, HashIp, BitmapPort, "list:set"},
        f \in {"", ProtocolFamilyIPV4, ProtocolFamilyIPV6, "unix"},
        h \in {0, 2048},
        m \in {0, 4096},
        r \in SeqsUpTo(RangeChars, MaxRangeLen)}

\* The descriptors handed to ensureIPSets: two that CreateSet takes and one for
\* each of its three refusals.
EnsurePool ==
    {IPSetOf("KUBE-A", HashIpPort, "", 0, 0, <<>>),
     IPSetOf("KUBE-B", BitmapPort, ProtocolFamilyIPV4, 0, 0, <<>>),
     IPSetOf("KUBE-C", "list:set", ProtocolFamilyIPV4, 0, 0, <<>>),
     IPSetOf("KUBE-D", BitmapPort, ProtocolFamilyIPV6, 0, 0, <<"1", "-", "x">>),
     IPSetOf("KUBE-E", HashIp, "unix", 0, 0, <<>>)}

\* One CreateSet call, as the history keeps it.
CreateCallOf(given, ignoreExistErr, r) ==
    [given |-> given, ignoreExistErr |-> ignoreExistErr, err |-> r.err, command |-> r.command]

\* A caller calls CreateSet on one descriptor.
CreateCall ==
    /\ ensurePc = "run"
    /\ createLog = <<>>
    /\ Len(ipSets) = 1
    /\ \E ignoreExistErr \in BOOLEAN, execOk \in BOOLEAN :
         LET r == CreateSet(ipSets[1], ignoreExistErr, execOk)
         IN  /\ ipSets' = <<r.set>>
             /\ createLog' = <<CreateCallOf(ipSets[1], ignoreExistErr, r)>>
             /\ ensureErr' = r.err
    /\ ensurePc' = "returned"
    /\ UNCHANGED ensureNext
    /\ UNCHANGED <<nodeMap, trackerVars, filterVars, syncVars, versionVars, raceVars>>

\* As EnsureCreate, but a failed CreateSet is passed over.
EnsureCreateGoesOn ==
    /\ ensurePc = "run"
    /\ ensureNext <= Len(ipSets)
    /\ \E execOk \in BOOLEAN :
         LET r == CreateSet(ipSets[ensureNext], TRUE, execOk)
         IN  /\ ipSets' = [ipSets EXCEPT ![ensureNext] = r.set]
             /\ createLog' = Append(createLog, CreateCallOf(ipSets[ensureNext], TRUE, r))
             /\ ensureNext' = ensureNext + 1
             /\ UNCHANGED <<ensureErr, ensurePc>>
    /\ UNCHANGED <<nodeMap, trackerVars, filterVars, syncVars, versionVars, raceVars>>

\* One turn of the loop of ensureIPSets: CreateSet on the next descriptor, and
\* the return of its error when it has one.
EnsureCreate ==
    /\ ensurePc = "run"
    /\ ensureNext <= Len(ipSets)
    /\ \E execOk \in BOOLEAN :
         LET r == CreateSet(ipSets[ensureNext], TRUE, execOk)
         IN  /\ ipSets' = [ipSets EXCEPT ![ensureNext] = r.set]
             /\ createLog' = Append(createLog, CreateCallOf(ipSets[ensureNext], TRUE, r))
             /\ IF r.err # NoError
                THEN ensureErr' = r.err /\ ensurePc' = "returned" /\ UNCHANGED ensureNext
                ELSE ensureNext' = ensureNext + 1 /\ UNCHANGED <<ensureErr, ensurePc>>
    /\ UNCHANGED <<nodeMap, trackerVars, filterVars, syncVars, versionVars, raceVars>>

\* The loop is over: ensureIPSets returns nil.
EnsureReturn ==
    /\ ensurePc = "run"
    /\ ensureNext > Len(ipSets)
    /\ ensurePc' = "returned"
    /\ ensureErr' = NoError
    /\ UNCHANGED <<ipSets, ensureNext, createLog>>
    /\ UNCHANGED <<nodeMap, trackerVars, filterVars, syncVars, versionVars, raceVars>>

\* No descriptors and no call.
CreateIdle ==
    /\ ipSets = <<>>
    /\ ensureNext = 1
    /\ ensurePc = "run"
    /\ ensureErr = NoError
    /\ createLog = <<>>

\* checkMinVersion not called.
VersionIdle ==
    /\ vstring = <<>>
    /\ vChecked = FALSE
    /\ vResult = FALSE

\* No Update has taken the lock.
RaceIdle == acquired = <<>>

-----------------------------------------------------------------------------
(* checkMinVersion *)

\* MinIPSetCheckVersion, "6.0", character by character.
MinIPSetCheckVersion == <<"6", ".", "0">>

\* The characters of the version strings of the model.
VersionChars == {"0", "1", "5", "6", "9", ".", "v", "x"}

DigitValue ==
    [c \in Digits |->
        CASE c = "0" -> 0 [] c = "1" -> 1 [] c = "2" -> 2 [] c = "3" -> 3 [] c = "4" -> 4
          [] c = "5" -> 5 [] c = "6" -> 6 [] c = "7" -> 7 [] c = "8" -> 8 [] c = "9" -> 9]

\* The number a string of digits writes.
RECURSIVE ParseUint(_, _)
ParseUint(acc, s) ==
    IF s = <<>> THEN acc ELSE ParseUint(acc * 10 + DigitValue[Head(s)], Tail(s))

\* The longest run of digits at the head of s.
RECURSIVE LeadingDigits(_)
LeadingDigits(s) ==
    IF s # <<>> /\ Head(s) \in Digits THEN <<Head(s)>> \o LeadingDigits(Tail(s)) ELSE <<>>

\* The numeric fields at the head of s: a run of digits, then further runs each
\* after one dot; what follows the last of them is not interpreted.
RECURSIVE NumericFields(_)
NumericFields(s) ==
    LET field == LeadingDigits(s)
        rest == SubSeq(s, Len(field) + 1, Len(s))
    IN  IF field = <<>>
        THEN <<>>
        ELSE IF rest # <<>> /\ Head(rest) = "." /\ LeadingDigits(Tail(rest)) # <<>>
        THEN <<field>> \o NumericFields(Tail(rest))
        ELSE <<field>>

\* utilversion.ParseGeneric: the version may follow a letter v and has two or
\* more dot-separated numeric fields, the first without a leading zero unless
\* it is 0; err tells that the string is no such version.
ParseGeneric(str) ==
    LET body == IF str # <<>> /\ Head(str) = "v" THEN Tail(str) ELSE str
        fields == NumericFields(body)
    IN  IF Len(fields) < 2 \/ (Len(fields[1]) > 1 /\ fields[1][1] = "0")
        THEN [err |-> TRUE, components |-> <<>>]
        ELSE [err |-> FALSE, components |-> [i \in DOMAIN fields |-> ParseUint(0, fields[i])]]

\* Version.LessThan: the first field that differs decides; fields that other
\* lacks count as 0 there.
RECURSIVE LessThanFrom(_, _, _)
LessThanFrom(i, v, other) ==
    IF i > Len(v)
    THEN FALSE
    ELSE IF i > Len(other)
    THEN IF v[i] # 0 THEN FALSE ELSE LessThanFrom(i + 1, v, other)
    ELSE IF other[i] < v[i]
    THEN FALSE
    ELSE IF other[i] > v[i]
    THEN TRUE
    ELSE LessThanFrom(i + 1, v, other)

LessThan(version, other) == LessThanFrom(1, version.components, other.components)

\* As checkMinVersion, but the version has to be above the minimum.
checkMinVersionAbove(vstr) ==
    LET version == ParseGeneric(vstr)
        minVersion == ParseGeneric(MinIPSetCheckVersion)
    IN  IF version.err
        THEN FALSE
        ELSE IF minVersion.err
        THEN FALSE
        ELSE LessThan(minVersion, version)

checkMinVersion(vstr) ==
    LET version == ParseGeneric(vstr)
        minVersion == ParseGeneric(MinIPSetCheckVersion)
    IN  IF version.err
        THEN FALSE
        ELSE IF minVersion.err
        THEN FALSE
        ELSE ~LessThan(version, minVersion)

\* A caller calls checkMinVersion.
CheckVersion ==
    /\ ~vChecked
    /\ vChecked' = TRUE
    /\ vResult' = checkMinVersion(vstring)
    /\ UNCHANGED vstring
    /\ UNCHANGED <<nodeMap, trackerVars, filterVars, syncVars, createVars, raceVars>>

-----------------------------------------------------------------------------
(* The specifications *)

Init ==
    /\ world = EmptyMap
    /\ nodeMap = EmptyMap
    /\ items = EmptyMap
    /\ lock = FALSE
    /\ pc = [p \in Updaters |-> "idle"]
    /\ call = [p \in Updaters |-> <<Nil, Nil>>]
    /\ ret = [p \in Updaters |-> FALSE]
    /\ applyPc = "idle"
    /\ batch = EmptyMap
    /\ mapBefore = EmptyMap
    /\ changesTotal = 0
    /\ changesPending = 0
    /\ fCall = NoFilterCall
    /\ fResult = <<>>
    /\ SyncIdle
    /\ CreateIdle
    /\ VersionIdle
    /\ RaceIdle

Next ==
    \/ \E p \in Updaters : UpdateCall(p)
    \/ \E p \in Updaters : UpdateNil(p)
    \/ \E p \in Updaters : UpdateLock(p)
    \/ \E p \in Updaters : UpdateBody(p)
    \/ \E p \in Updaters : UpdateUnlock(p)
    \/ ApplyLock
    \/ ApplyRange
    \/ ApplyReset
    \/ ApplyUnlock

Spec == Init /\ [][Next]_vars

\* The filter alone: any NodeMap, a drained tracker, one call.
InitFilter ==
    /\ nodeMap \in NodeMaps
    /\ world = EmptyMap
    /\ items = EmptyMap
    /\ lock = FALSE
    /\ pc = [p \in Updaters |-> "idle"]
    /\ call = [p \in Updaters |-> <<Nil, Nil>>]
    /\ ret = [p \in Updaters |-> FALSE]
    /\ applyPc = "idle"
    /\ batch = EmptyMap
    /\ mapBefore = EmptyMap
    /\ changesTotal = 0
    /\ changesPending = 0
    /\ fCall = NoFilterCall
    /\ fResult = <<>>
    /\ SyncIdle
    /\ CreateIdle
    /\ VersionIdle
    /\ RaceIdle

NextFilter == FilterCall

SpecFilter == InitFilter /\ [][NextFilter]_vars

\* The reconciler of one set alone: the kernel's set holds any entries at the start.
InitSync ==
    /\ world = EmptyMap
    /\ nodeMap = EmptyMap
    /\ items = EmptyMap
    /\ lock = FALSE
    /\ pc = [p \in Updaters |-> "idle"]
    /\ call = [p \in Updaters |-> <<Nil, Nil>>]
    /\ ret = [p \in Updaters |-> FALSE]
    /\ applyPc = "idle"
    /\ batch = EmptyMap
    /\ mapBefore = EmptyMap
    /\ changesTotal = 0
    /\ changesPending = 0
    /\ fCall = NoFilterCall
    /\ fResult = <<>>
    /\ activeEntries = {}
    /\ kernelSet \in SUBSET Entries
    /\ syncPc = "idle"
    /\ appliedEntries = {}
    /\ listErr = FALSE
    /\ todo = <<>>
    /\ storeCalls = <<>>
    /\ prevPass = NoPass
    /\ passes = 0
    /\ CreateIdle
    /\ VersionIdle
    /\ RaceIdle

NextSync ==
    \/ Refresh
    \/ SyncList
    \/ SyncListFails
    \/ SyncDel
    \/ SyncAdd
    \/ SyncReturn

SpecSync == InitSync /\ [][NextSync]_vars

\* Everything but the descriptors is as at the start.
OthersIdle ==
    /\ world = EmptyMap
    /\ nodeMap = EmptyMap
    /\ items = EmptyMap
    /\ lock = FALSE
    /\ pc = [p \in Updaters |-> "idle"]
    /\ call = [p \in Updaters |-> <<Nil, Nil>>]
    /\ ret = [p \in Updaters |-> FALSE]
    /\ applyPc = "idle"
    /\ batch = EmptyMap
    /\ mapBefore = EmptyMap
    /\ changesTotal = 0
    /\ changesPending = 0
    /\ fCall = NoFilterCall
    /\ fResult = <<>>
    /\ SyncIdle
    /\ VersionIdle
    /\ RaceIdle
    /\ ensureNext = 1
    /\ ensurePc = "run"
    /\ ensureErr = NoError
    /\ createLog = <<>>

\* ensureIPSets alone, on any list of descriptors of the pool.
InitEnsure ==
    /\ OthersIdle
    /\ ipSets \in SeqsUpTo(EnsurePool, MaxSets)

NextEnsure ==
    \/ EnsureCreate
    \/ EnsureReturn

SpecEnsure == InitEnsure /\ [][NextEnsure]_vars

\* CreateSet alone, on any descriptor.
InitCreate ==
    /\ OthersIdle
    /\ ipSets \in {<<d>> : d \in Descriptors}

NextCreate == CreateCall

SpecCreate == InitCreate /\ [][NextCreate]_vars

\* checkMinVersion alone, on any string.
InitVersion ==
    /\ world = EmptyMap
    /\ nodeMap = EmptyMap
    /\ items = EmptyMap
    /\ lock = FALSE
    /\ pc = [p \in Updaters |-> "idle"]
    /\ call = [p \in Updaters |-> <<Nil, Nil>>]
    /\ ret = [p \in Updaters |-> FALSE]
    /\ applyPc = "idle"
    /\ batch = EmptyMap
    /\ mapBefore = EmptyMap
    /\ changesTotal = 0
    /\ changesPending = 0
    /\ fCall = NoFilterCall
    /\ fResult = <<>>
    /\ SyncIdle
    /\ CreateIdle
    /\ vstring \in SeqsUpTo(VersionChars, MaxVersionLen)
    /\ vChecked = FALSE
    /\ vResult = FALSE
    /\ RaceIdle

NextVersion == CheckVersion

SpecVersion == InitVersion /\ [][NextVersion]_vars

\* The tracker alone, with callers that nothing orders.
InitRace == Init

NextRace ==
    \/ \E p \in Updaters : RaceCall(p)
    \/ \E p \in Updaters : RaceLock(p)
    \/ \E p \in Updaters : UpdateBody(p)
    \/ \E p \in Updaters : UpdateUnlock(p)

SpecRace == InitRace /\ [][NextRace]_vars

\* The reconciler run again and again on one desired set, the kernel's set
\* written by nobody else. Every call of the store that is attempted again and
\* again succeeds in the end: ListEntries, and DelEntry and AddEntry on each
\* entry.
InitConverge ==
    /\ world = EmptyMap
    /\ nodeMap = EmptyMap
    /\ items = EmptyMap
    /\ lock = FALSE
    /\ pc = [p \in Updaters |-> "idle"]
    /\ call = [p \in Updaters |-> <<Nil, Nil>>]
    /\ ret = [p \in Updaters |-> FALSE]
    /\ applyPc = "idle"
    /\ batch = EmptyMap
    /\ mapBefore = EmptyMap
    /\ changesTotal = 0
    /\ changesPending = 0
    /\ fCall = NoFilterCall
    /\ fResult = <<>>
    /\ activeEntries \in SUBSET Entries
    /\ kernelSet \in SUBSET Entries
    /\ syncPc = "idle"
    /\ appliedEntries = {}
    /\ listErr = FALSE
    /\ todo = <<>>
    /\ storeCalls = <<>>
    /\ prevPass = NoPass
    /\ passes = 0
    /\ CreateIdle
    /\ VersionIdle
    /\ RaceIdle

NextConverge ==
    \/ CycleList
    \/ CycleListFails
    \/ SyncDel
    \/ SyncAdd
    \/ SyncReturn

SpecConverge ==
    /\ InitConverge
    /\ [][NextConverge]_vars
    /\ WF_vars(NextConverge)
    /\ SF_vars(CycleList)
    /\ \A e \in Entries : SF_vars(DelSucceeds(e)) /\ SF_vars(AddSucceeds(e))

-----------------------------------------------------------------------------
(* Properties of the tracker and the NodeMap, checked under Spec *)

\* The entry of a map at a name, Nil when it has none.
Entry(m, n) == IF n \in DOMAIN m THEN m[n] ELSE Nil

\* What a v1.Node looks like once tracked: its name and its labels.
Snapshot(node) == IF node = Nil THEN Nil ELSE [name |-> node.Name, labels |-> node.Labels]

AllIdle == \A p \in Updaters : pc[p] = "idle"

\* C1: once apply has run after the last of a sequence of well-formed node
\* events (no Update is running or has come since), the NodeMap holds exactly
\* the nodes that exist, each with its latest labels, and no deleted node.
C1_NodeMapIsCluster ==
    (applyPc = "unlock" /\ AllIdle) =>
        \A n \in NodeNames : Entry(nodeMap, n) = Snapshot(Entry(world, n))

\* An apply has just drained the deletion of a node the NodeMap held, after
\* the last Update, and another node stays in the map.
C1_Witness ==
    /\ applyPc = "unlock"
    /\ AllIdle
    /\ changesTotal = 3
    /\ \E n \in DOMAIN mapBefore : n \notin DOMAIN nodeMap /\ n \notin DOMAIN world
    /\ DOMAIN nodeMap # {}

\* Update(node, node') is past its locked part, node and node' having the same
\* name and identical labels.
SameLabelsUpdateBy(p) ==
    /\ call[p][1] # Nil
    /\ call[p][2] # Nil
    /\ call[p][1].Name = call[p][2].Name
    /\ call[p][1].Labels = call[p][2].Labels

\* C2 as stated: after Update(node, node') with the same identity and identical
\* labels, the tracker holds no pending record for that identity.
C2_NoRecordAfterSameLabels ==
    \A p \in Updaters :
        (pc[p] = "unlock" /\ SameLabelsUpdateBy(p)) => call[p][2].Name \notin DOMAIN items

\* C2, amended: Update(node, node') with the same identity and identical labels
\* never creates a pending record; a record already pending for the identity is
\* removed when its previous deep-equals the snapshot of node' and is otherwise
\* kept, with node' as its current.
C2_SameLabelsNeverCreates ==
    [][\A p \in Updaters :
         (pc[p] = "body" /\ pc'[p] = "unlock" /\ SameLabelsUpdateBy(p)) =>
            LET n == call[p][2].Name
                snap == Snapshot(call[p][2])
            IN  /\ n \in DOMAIN items' <=>
                     (n \in DOMAIN items /\ items[n].previous # snap)
                /\ n \in DOMAIN items' =>
                     items'[n] = [previous |-> items[n].previous, current |-> snap]
                /\ \A m \in NodeNames \ {n} : Entry(items', m) = Entry(items, m)]_vars

\* An Update whose two nodes differ in status only has run on a tracker with no
\* record for the node, and has left none.
C2_Witness ==
    \E p \in Updaters :
        /\ pc[p] = "unlock"
        /\ SameLabelsUpdateBy(p)
        /\ call[p][1].Status # call[p][2].Status
        /\ call[p][2].Name \notin DOMAIN items

\* C3: apply changes the NodeMap only at the identities with a pending record
\* at drain time: such an identity ends with the record's current when current
\* is present, is removed when only previous is present; every other
\* identity's entry is what it was before apply.
C3_ApplyTouchesPendingOnly ==
    applyPc \in {"reset", "unlock"} =>
        \A n \in NodeNames :
            Entry(nodeMap, n) =
                IF n \in DOMAIN batch
                THEN IF batch[n].current # Nil THEN batch[n].current
                     ELSE IF batch[n].previous # Nil THEN Nil
                     ELSE Entry(mapBefore, n)
                ELSE Entry(mapBefore, n)

\* apply has ranged over a deletion while another node, not pending, was in the map.
C3_Witness ==
    /\ applyPc = "reset"
    /\ \E n \in DOMAIN batch :
         batch[n].previous # Nil /\ batch[n].current = Nil /\ n \in DOMAIN mapBefore
    /\ \E n \in DOMAIN mapBefore : n \notin DOMAIN batch /\ n \in DOMAIN nodeMap

\* C4: when apply returns the tracker has no pending record and its gauge is
\* zero, and an apply that finds the tracker drained changes neither the
\* NodeMap nor the tracker.
C4_ApplyDrainsAndIsIdempotent ==
    /\ [](applyPc = "unlock" => (items = EmptyMap /\ changesPending = 0))
    /\ [][(applyPc \in {"range", "reset"} /\ items = EmptyMap) =>
            (nodeMap' = nodeMap /\ items' = items /\ changesPending' = changesPending)]_vars

\* An apply has run on a drained tracker while the NodeMap held a node.
C4_Witness ==
    /\ applyPc = "unlock"
    /\ batch = EmptyMap
    /\ nodeMap # EmptyMap
    /\ mapBefore = nodeMap
    /\ items = EmptyMap

C6_ReturnsItemsChanged ==
    [][\A p \in Updaters :
         (pc[p] = "body" /\ pc'[p] = "unlock") => (ret'[p] <=> items' # items)]_vars

\* The cluster as the tracker has been told of it: an Update that has not run
\* its locked part yet has delivered nothing.
Delivered(n) ==
    IF \E p \in Updaters :
          pc[p] \in {"lock", "body"} /\ KeyNode(call[p][1], call[p][2]).Name = n
    THEN LET p == CHOOSE q \in Updaters :
                      pc[q] \in {"lock", "body"} /\ KeyNode(call[q][1], call[q][2]).Name = n
         IN  Snapshot(call[p][1])
    ELSE Snapshot(Entry(world, n))

\* What the next apply leaves at a name: the pending current, else the map's entry.
Effective(n) == IF n \in DOMAIN items THEN items[n].current ELSE Entry(nodeMap, n)

\* C7: under any interleaving of Update callers and the apply caller no Update
\* is lost or half-applied: every Update that ran its locked part is in the
\* NodeMap or is a pending record, and apply resets only what it ranged over.
C7_NoUpdateLost ==
    /\ \A n \in NodeNames : Effective(n) = Delivered(n)
    /\ applyPc = "reset" => items = batch

\* Two Update callers wait for the lock while apply, holding it, has drained a batch.
C7_Witness ==
    /\ applyPc = "unlock"
    /\ batch # EmptyMap
    /\ \A p \in Updaters : pc[p] = "lock"

\* A step that is no step of a call with a side present and no step of apply.
NilCallStep == pc' = pc /\ applyPc' = applyPc

\* C21: Update(nil, nil) returns false and leaves the pending records, the
\* pending gauge and the change counter as they are, whatever the tracker holds.
C21_NilNilChangesNothing ==
    [][NilCallStep =>
          /\ items' = items
          /\ changesPending' = changesPending
          /\ changesTotal' = changesTotal
          /\ \A p \in Updaters : ret'[p] = ret[p] \/ (pc[p] = "idle" /\ ret'[p] = FALSE)]_vars

\* One Update with a side present has been counted and has left a pending
\* record, so it returned true; its caller's result is false now, so the
\* caller has called Update(nil, nil) since, with the record pending.
C21_Witness ==
    /\ AllIdle
    /\ changesTotal = 1
    /\ changesPending = 1
    /\ items # EmptyMap
    /\ \A p \in Updaters : ret[p] = FALSE

\* A call with a side present starts in this step.
UpdateCallStep == \E p \in Updaters : pc[p] = "idle" /\ pc'[p] = "lock"

\* C27: whenever the lock is free the pending gauge is the number of pending
\* records, and zero when apply returns; the change counter never decreases and
\* grows by one with each Update call that has a side present, and only then.
C27_GaugeAndCounter ==
    /\ [](lock = FALSE => changesPending = Cardinality(DOMAIN items))
    /\ [][/\ (applyPc = "unlock" /\ applyPc' = "idle") => (changesPending' = 0 /\ items' = EmptyMap)
          /\ changesTotal' = changesTotal + (IF UpdateCallStep THEN 1 ELSE 0)]_vars

\* The lock is free, two Update calls have been counted and two records are
\* pending, with the gauge at two.
C27_Witness ==
    /\ lock = FALSE
    /\ applyPc = "idle"
    /\ AllIdle
    /\ changesTotal = 2
    /\ Cardinality(DOMAIN items) = 2
    /\ changesPending = 2

-----------------------------------------------------------------------------
(* Properties of concurrent Update calls, checked under SpecRace *)

\* The items after the calls have run one at a time, in their order.
RECURSIVE RunInOrder(_, _)
RunInOrder(its, calls) ==
    IF calls = <<>>
    THEN its
    ELSE RunInOrder(UpdateItems(its, Head(calls)[1], Head(calls)[2]), Tail(calls))

\* The calls for this node among those that have taken the lock.
CallsFor(n) == SelectSeq(acquired, LAMBDA c : KeyNode(c[1], c[2]).Name = n)

\* Every caller that has taken the lock has run the locked part.
NoneInBody == \A p \in Updaters : pc[p] # "body"

\* C22: however the callers interleave, the pending records are those that the
\* same calls leave when run one at a time in the order they took the lock;
\* a record's current is that of the last call for its node to take the lock.
C22_Linearizable ==
    NoneInBody =>
        /\ items = RunInOrder(EmptyMap, acquired)
        /\ \A n \in DOMAIN items :
             items[n].current = Snapshot(CallsFor(n)[Len(CallsFor(n))][2])

\* Two calls for one node have run while a third, for the same node, waits for
\* the lock that the second still holds; the record has the second's current.
C22_Witness ==
    /\ pc["u2"] = "unlock"
    /\ pc["u1"] = "lock"
    /\ Len(acquired) = 2
    /\ acquired[2] = call["u2"]
    /\ KeyNode(call["u1"][1], call["u1"][2]).Name = "n1"
    /\ Len(CallsFor("n1")) = 2
    /\ "n1" \in DOMAIN items
    /\ items["n1"].current = Snapshot(call["u2"][2])
    /\ items["n1"].current # Snapshot(acquired[1][2])

-----------------------------------------------------------------------------
(* Properties of FilterTopologyEndpoint, checked under SpecFilter *)

FilterCalled == fCall # NoFilterCall

CurrentNodeKnown == fCall.currentNodeName \in DOMAIN nodeMap

\* The endpoints of the call whose owning node is in the map and has, for key,
\* the value the current node has.
KeyMatches(key) ==
    LET cur == nodeMap[fCall.currentNodeName].labels
        Match(ep) == /\ ep.NodeName \in DOMAIN nodeMap
                     /\ key \in DOMAIN cur
                     /\ key \in DOMAIN nodeMap[ep.NodeName].labels
                     /\ nodeMap[ep.NodeName].labels[key] = cur[key]
    IN  SelectSeq(fCall.endpoints, Match)

\* Key i is the first to match: it is not the empty key and matches an
\* endpoint, and every key before it is not the empty key and matches none.
FirstMatch(i) ==
    /\ fCall.topologyKeys[i] # ""
    /\ KeyMatches(fCall.topologyKeys[i]) # <<>>
    /\ \A j \in 1..(i - 1) :
         fCall.topologyKeys[j] # "" /\ KeyMatches(fCall.topologyKeys[j]) = <<>>

\* C8: with the current node in the map, the result is exactly the matches of
\* the first key that matches any endpoint, no empty key coming before it:
\* nothing is merged from other keys and a later empty key is not reached.
C8_FirstMatchingKeyOnly ==
    (FilterCalled /\ CurrentNodeKnown) =>
        \A i \in 1..Len(fCall.topologyKeys) :
            FirstMatch(i) => fResult = KeyMatches(fCall.topologyKeys[i])

\* The first key matches some endpoints; the next key would match others.
C8_Witness ==
    /\ FilterCalled
    /\ CurrentNodeKnown
    /\ Len(fCall.topologyKeys) = 2
    /\ FirstMatch(1)
    /\ fCall.topologyKeys[2] # ""
    /\ KeyMatches(fCall.topologyKeys[2]) # <<>>
    /\ KeyMatches(fCall.topologyKeys[2]) # KeyMatches(fCall.topologyKeys[1])
    /\ fResult # fCall.endpoints

\* No key of the call is the empty key and none matches an endpoint.
NoKeyMatches ==
    \A i \in 1..Len(fCall.topologyKeys) :
        fCall.topologyKeys[i] # "" /\ KeyMatches(fCall.topologyKeys[i]) = <<>>

\* C9: with a non-empty key list holding no empty key, the current node in the
\* map and no key matching, the result is the empty list, not the input.
C9_NoMatchGivesEmpty ==
    (FilterCalled /\ CurrentNodeKnown /\ Len(fCall.topologyKeys) > 0 /\ NoKeyMatches) =>
        fResult = <<>>

\* Two keys match none of the endpoints, one of which is on a node of the map.
C9_Witness ==
    /\ FilterCalled
    /\ CurrentNodeKnown
    /\ Len(fCall.topologyKeys) = 2
    /\ NoKeyMatches
    /\ \E i \in 1..Len(fCall.endpoints) : fCall.endpoints[i].NodeName \in DOMAIN nodeMap
    /\ fResult = <<>>

\* The scan reaches the empty key at i: every key before it is not the empty
\* key and matches none.
ReachesWildcard(i) ==
    /\ fCall.topologyKeys[i] = ""
    /\ \A j \in 1..(i - 1) :
         fCall.topologyKeys[j] # "" /\ KeyMatches(fCall.topologyKeys[j]) = <<>>

\* C10: when the scan reaches an empty key, the result is the full candidate list.
C10_WildcardGivesAll ==
    (FilterCalled /\ CurrentNodeKnown) =>
        \A i \in 1..Len(fCall.topologyKeys) :
            ReachesWildcard(i) => fResult = fCall.endpoints

\* A key the current node has a value for matches nothing, the empty key
\* follows, and the list returned holds an endpoint no key could match.
C10_Witness ==
    /\ FilterCalled
    /\ CurrentNodeKnown
    /\ Len(fCall.topologyKeys) = 2
    /\ ReachesWildcard(2)
    /\ fCall.topologyKeys[1] \in DOMAIN nodeMap[fCall.currentNodeName].labels
    /\ \E i \in 1..Len(fCall.endpoints) : fCall.endpoints[i].NodeName \notin DOMAIN nodeMap
    /\ fResult = fCall.endpoints


\* C11: with an empty topology key list the result is the candidate list
\* unchanged, whatever the node map and the current node.
C11_NoKeysGivesAll ==
    (FilterCalled /\ Len(fCall.topologyKeys) = 0) => fResult = fCall.endpoints

\* A call without keys, from a node of the map that has labels, on two
\* endpoints of which one has no node name.
C11_Witness ==
    /\ FilterCalled
    /\ Len(fCall.topologyKeys) = 0
    /\ CurrentNodeKnown
    /\ DOMAIN nodeMap[fCall.currentNodeName].labels # {}
    /\ Len(fCall.endpoints) = 2
    /\ \E i \in 1..2 : fCall.endpoints[i].NodeName = ""
    /\ fResult = fCall.endpoints

\* C12: when the current node's name is not a key of the node map the result
\* is the candidate list unchanged, whatever the topology keys.
C12_UnknownCurrentGivesAll ==
    (FilterCalled /\ ~CurrentNodeKnown) => fResult = fCall.endpoints

\* A call from a node the map does not hold, with two keys, none empty, on
\* endpoints of which one is on a node of the map.
C12_Witness ==
    /\ FilterCalled
    /\ ~CurrentNodeKnown
    /\ Len(fCall.topologyKeys) = 2
    /\ \A i \in 1..2 : fCall.topologyKeys[i] # ""
    /\ \E i \in 1..Len(fCall.endpoints) : fCall.endpoints[i].NodeName \in DOMAIN nodeMap
    /\ fResult = fCall.endpoints
    /\ fResult # <<>>


\* The Update call of p runs its locked part in this step, on the record of n.
UpdateBodyStep(p, n) ==
    pc[p] = "body" /\ pc'[p] = "unlock" /\ KeyNode(call[p][1], call[p][2]).Name = n

\* C19: while a pending record exists its previous is the previous argument of
\* the Update call that created it and no later Update overwrites it, and its
\* current is the current argument of the latest Update call for the identity.
C19_PreviousKeptCurrentLatest ==
    [][\A n \in NodeNames :
         /\ (n \in DOMAIN items /\ n \in DOMAIN items') =>
                items'[n].previous = items[n].previous
         /\ \A p \in Updaters :
                (UpdateBodyStep(p, n) /\ n \in DOMAIN items') =>
                    /\ items'[n].current = Snapshot(call[p][2])
                    /\ n \notin DOMAIN items => items'[n].previous = Snapshot(call[p][1])
         /\ ((\A p \in Updaters : ~UpdateBodyStep(p, n))
                 /\ n \in DOMAIN items /\ n \in DOMAIN items') =>
                items'[n].current = items[n].current]_vars

\* An update of a node has run on a record that an earlier call created: the
\* record keeps the earlier previous, not this call's, and has this call's current.
C19_Witness ==
    \E p \in Updaters :
        /\ pc[p] = "unlock"
        /\ call[p][1] # Nil
        /\ call[p][2] # Nil
        /\ call[p][2].Name \in DOMAIN items
        /\ items[call[p][2].Name].previous # Snapshot(call[p][1])
        /\ items[call[p][2].Name].current = Snapshot(call[p][2])

\* C20: no pending record has previous deep-equal to current; in particular
\* none has both sides absent.
C20_NoRecordWithEqualSides ==
    \A n \in DOMAIN items :
        /\ items[n].previous # items[n].current
        /\ ~(items[n].previous = Nil /\ items[n].current = Nil)

\* A node was added and then deleted with no apply in between: the delete has
\* run and the tracker holds no record for the node.
C20_Witness ==
    \E p \in Updaters :
        /\ pc[p] = "unlock"
        /\ call[p][1] # Nil
        /\ call[p][2] = Nil
        /\ call[p][1].Name \notin DOMAIN items
        /\ call[p][1].Name \notin DOMAIN nodeMap
        /\ applyPc = "idle"

\* a can be had from b by leaving elements out, the order kept.
RECURSIVE IsSubsequence(_, _)
IsSubsequence(a, b) ==
    IF a = <<>>
    THEN TRUE
    ELSE IF b = <<>>
    THEN FALSE
    ELSE IF Head(a) = Head(b)
    THEN IsSubsequence(Tail(a), Tail(b))
    ELSE IsSubsequence(a, Tail(b))

\* The result was selected by a key: the current node is in the map and some
\* key is the first to match.
SelectedByKey ==
    /\ CurrentNodeKnown
    /\ \E i \in 1..Len(fCall.topologyKeys) : FirstMatch(i)

\* C23: the result is a subsequence of the candidates, in their order, and is
\* empty for no candidates; a result selected by a key match holds no endpoint
\* whose owning node is unnamed or is not in the node map.
C23_SubsequenceOfKnownNodes ==
    FilterCalled =>
        /\ IsSubsequence(fResult, fCall.endpoints)
        /\ fCall.endpoints = <<>> => fResult = <<>>
        /\ SelectedByKey =>
             \A i \in DOMAIN fResult :
                 fResult[i].NodeName # "" /\ fResult[i].NodeName \in DOMAIN nodeMap

\* Two different candidates match the first key that matches: the result is the
\* two, in the candidates' order.
C23_Witness ==
    /\ FilterCalled
    /\ SelectedByKey
    /\ Len(fResult) = 2
    /\ fResult[1] # fResult[2]
    /\ Len(fCall.endpoints) = 2
    /\ fResult = fCall.endpoints

-----------------------------------------------------------------------------
(* Properties of IPSet.syncIPSetEntries, checked under SpecSync *)

\* The number of calls of the latest pass with this operation on this entry.
CallCount(op, e) ==
    Cardinality({i \in DOMAIN storeCalls : storeCalls[i].op = op /\ storeCalls[i].entry = e})

\* The pass has listed the kernel's set and made its last call.
PassDone == syncPc = "return" /\ ~listErr

\* C13: for any desired set and any listing, one pass issues exactly one
\* DelEntry for each entry that is listed and not desired, exactly one AddEntry
\* for each entry that is desired and not listed, and no call for an entry
\* that is both or neither.
C13_OneCallPerDifference ==
    PassDone =>
        \A e \in Entries :
            /\ CallCount("del", e) = IF e \in appliedEntries /\ e \notin activeEntries THEN 1 ELSE 0
            /\ CallCount("add", e) = IF e \in activeEntries /\ e \notin appliedEntries THEN 1 ELSE 0

\* The desired set is {1, 2} and the listing {2, 3}: the pass has deleted 3,
\* added 1 and made no other call.
C13_Witness ==
    /\ PassDone
    /\ activeEntries = {EntryOrder[1], EntryOrder[2]}
    /\ appliedEntries = {EntryOrder[2], EntryOrder[3]}
    /\ Len(storeCalls) = 2
    /\ \E i \in DOMAIN storeCalls : storeCalls[i].op = "del" /\ storeCalls[i].entry = EntryOrder[3]
    /\ \E i \in DOMAIN storeCalls : storeCalls[i].op = "add" /\ storeCalls[i].entry = EntryOrder[1]

\* The call failed in the pass before, and the entry is listed now as it was
\* listed then.
FailedAndUnchanged(c) ==
    /\ ~c.ok
    /\ (c.entry \in appliedEntries) = (c.entry \in prevPass.applied)

\* C14: when a pass follows a pass with the same desired set, every call that
\* failed in the earlier pass, on an entry whose listing has not changed, is
\* issued again by the later pass.
C14_FailedCallIssuedAgain ==
    (PassDone /\ prevPass.listed /\ prevPass.active = activeEntries) =>
        \A i \in DOMAIN prevPass.calls :
            FailedAndUnchanged(prevPass.calls[i]) =>
                CallCount(prevPass.calls[i].op, prevPass.calls[i].entry) = 1

\* An AddEntry failed in the pass before and the pass after it, with the same
\* desired set and the entry still not listed, has issued that AddEntry again.
C14_Witness ==
    /\ PassDone
    /\ prevPass.listed
    /\ prevPass.active = activeEntries
    /\ \E i \in DOMAIN prevPass.calls :
         /\ prevPass.calls[i].op = "add"
         /\ FailedAndUnchanged(prevPass.calls[i])
         /\ CallCount("add", prevPass.calls[i].entry) = 1

\* The calls, without their outcomes.
Issued(calls) == [i \in DOMAIN calls |-> <<calls[i].op, calls[i].entry>>]

\* The calls of a whole pass: a DelEntry for every entry listed and not
\* desired, then an AddEntry for every entry desired and not listed.
WholePass(active, applied) ==
    [i \in 1..Len(List(applied \ active)) |-> <<"del", List(applied \ active)[i]>>]
    \o [i \in 1..Len(List(active \ applied)) |-> <<"add", List(active \ applied)[i]>>]

\* C15: a failing DelEntry or AddEntry does not end the pass: whichever calls
\* failed, the pass attempts every entry of the difference once and none twice.
C15_FailureDoesNotAbort ==
    PassDone => Issued(storeCalls) = WholePass(activeEntries, appliedEntries)

\* The first call of the pass failed, it was a DelEntry, and the pass went on
\* to make two more calls, an AddEntry among them.
C15_Witness ==
    /\ PassDone
    /\ Len(storeCalls) = 3
    /\ storeCalls[1].op = "del"
    /\ ~storeCalls[1].ok
    /\ storeCalls[3].op = "add"

\* C24: in the calls of one pass no DelEntry comes after an AddEntry.
C24_DeletesBeforeAdds ==
    \A i, j \in DOMAIN storeCalls :
        (storeCalls[i].op = "add" /\ storeCalls[j].op = "del") => j < i

\* A pass has made a DelEntry that failed and then an AddEntry.
C24_Witness ==
    /\ PassDone
    /\ Len(storeCalls) = 2
    /\ storeCalls[1].op = "del"
    /\ ~storeCalls[1].ok
    /\ storeCalls[2].op = "add"
    /\ storeCalls[2].ok

\* A pass starts in this step and its ListEntries fails.
ListFailsStep == syncPc = "idle" /\ syncPc' # "idle" /\ listErr'

\* C26: a pass whose ListEntries fails returns at once: it issues no AddEntry
\* and no DelEntry, whatever the desired set holds, and leaves the desired set
\* and the kernel's set as they are.
C26_FailedListingEndsPass ==
    /\ [](listErr => (storeCalls = <<>> /\ syncPc \in {"return", "idle"}))
    /\ [][ListFailsStep =>
             /\ syncPc' = "return"
             /\ activeEntries' = activeEntries
             /\ kernelSet' = kernelSet]_vars

\* ListEntries has failed in a pass with entries desired and other entries in
\* the kernel's set: the pass is returning and has made no call.
C26_Witness ==
    /\ listErr
    /\ syncPc = "return"
    /\ activeEntries # {}
    /\ kernelSet # {}
    /\ activeEntries \cap kernelSet = {}
    /\ storeCalls = <<>>

-----------------------------------------------------------------------------
(* Properties of repeated passes, checked under SpecConverge *)

\* C25: with the desired set fixed, no other writer and a store whose calls
\* succeed in the end, the kernel's set comes to hold exactly the desired
\* entries, and from some pass on no pass issues an AddEntry or a DelEntry.
C25_Converges == <>[](kernelSet = activeEntries /\ storeCalls = <<>>)

\* A pass had a call fail, and the pass after it has made the kernel's set
\* equal to the desired set.
C25_Witness ==
    /\ PassDone
    /\ prevPass.listed
    /\ \E i \in DOMAIN prevPass.calls : ~prevPass.calls[i].ok
    /\ storeCalls # <<>>
    /\ kernelSet = activeEntries

-----------------------------------------------------------------------------
(* Properties of ensureIPSets, checked under SpecEnsure *)

\* The CreateSet calls that returned an error.
FailedCreates == {i \in DOMAIN createLog : createLog[i].err # NoError}

\* C16: ensureIPSets calls CreateSet on the given sets in their order, with
\* ignoreExistErr true; it makes no call after a call that failed and returns
\* that call's error; it returns nil only after a successful call for every set.
C16_FirstFailureEndsBatch ==
    /\ Len(createLog) <= Len(ipSets)
    /\ \A i \in DOMAIN createLog :
         /\ createLog[i].given.Name = ipSets[i].Name
         /\ createLog[i].ignoreExistErr
         /\ createLog[i].command # NoCommand => createLog[i].command.exist
         /\ i < Len(createLog) => createLog[i].err = NoError
    /\ ensurePc = "returned" =>
         IF FailedCreates # {}
         THEN ensureErr = createLog[Len(createLog)].err /\ ensureErr # NoError
         ELSE ensureErr = NoError /\ Len(createLog) = Len(ipSets)

\* The store failed on the second of three sets: ensureIPSets has returned the
\* store's error and made no call for the third.
C16_Witness ==
    /\ ensurePc = "returned"
    /\ Len(ipSets) = 3
    /\ Len(createLog) = 2
    /\ createLog[1].err = NoError
    /\ createLog[2].err = ErrExec
    /\ ensureErr = ErrExec

-----------------------------------------------------------------------------
(* Properties of runner.CreateSet, checked under SpecCreate *)

\* An integer as the port range writes it: a sign or none, then digits.
IsInteger(s) ==
    \E k \in {0, 1} :
        /\ Len(s) > k
        /\ k = 1 => s[1] \in {"+", "-"}
        /\ \A j \in (k + 1)..Len(s) : s[j] \in Digits

\* low-high, low and high integers: one hyphen with an integer on each side.
LowHigh(r) ==
    \E i \in DOMAIN r :
        /\ r[i] = "-"
        /\ \A j \in DOMAIN r : r[j] = "-" => j = i
        /\ IsInteger(SubSeq(r, 1, i - 1))
        /\ IsInteger(SubSeq(r, i + 1, Len(r)))

\* The family is set and is neither inet nor inet6.
UnsupportedFamily(d) == d.HashFamily \notin {"", ProtocolFamilyIPV4, ProtocolFamilyIPV6}

\* The set is of type bitmap:port and its port range is set and malformed.
MalformedRange(d) == d.SetType = BitmapPort /\ d.PortRange # <<>> /\ ~LowHigh(d.PortRange)

\* The call returned an error and ran no command.
Refused(c) == c.err # NoError /\ c.command = NoCommand

\* The call ran the create command, with this port range when it is not <<>>.
Accepted(c, range) ==
    /\ c.command # NoCommand
    /\ c.err \in {NoError, ErrExec}
    /\ range # <<>> => c.command.range = range

-----------------------------------------------------------------------------
(* Properties of checkMinVersion, checked under SpecVersion *)

\* C18: checkMinVersion returns true exactly when its argument parses as a
\* dotted-numeric version and that version is not below 6.0, field by field:
\* its first field is 6 or more. 6.19, v6.0 and 10.0 give true; 5.9 gives
\* false; every string that does not parse gives false.
C18_TrueFromSixUp ==
    vChecked =>
        /\ vResult = (~ParseGeneric(vstring).err /\ ParseGeneric(vstring).components[1] >= 6)
        /\ vstring \in {<<"6", ".", "1", "9">>, <<"v", "6", ".", "0">>, <<"1", "0", ".", "0">>}
               => vResult
        /\ vstring \in {<<"5", ".", "9">>, <<"6">>, <<"6", ".", "x">>, <<"x", "6", ".", "0">>,
                        <<".", "6", ".", "0">>, <<>>}
               => ~vResult

\* checkMinVersion has returned true for 6.19.
C18_Witness ==
    /\ vChecked
    /\ vstring = <<"6", ".", "1", "9">>
    /\ vResult

=============================================================================
